---------------------------- MODULE Spec2Model ----------------------------
(***************************************************************************)
(* FolderKeeper (src/src/BookManipulation/FolderKeeper.cpp): the registry  *)
(* of an EPUB's resources, its two indices, the unique-filename allocator  *)
(* and the file-watcher bookkeeping.                                       *)
(*                                                                         *)
(* A QString is a sequence of one-character strings, so that the string    *)
(* operations of the code (QFileInfo, right(), contains(), the regular     *)
(* expressions, toInt, arg) are computed character by character.           *)
(***************************************************************************)
EXTENDS Integers, Sequences, FiniteSets, TLC

VARIABLES
    heap,                    \* the Resource objects ever constructed: identifier -> fields
    m_Resources,             \* QHash identifier -> Resource*: the identifiers present
    m_Path2Resource,         \* QHash book path -> Resource* (NULL allowed)
    m_OPF,                   \* OPFResource* (NULL or an identifier)
    m_NCX,                   \* NCXResource* (NULL or an identifier)
    m_FSWatcher,             \* m_FSWatcher->files(): the watched paths
    m_SuspendedWatchedFiles, \* QStringList
    m_AccessMutex,           \* the thread holding the QMutex, or NoThread
    disk,                    \* the files that exist below the main folder
    connections,             \* the (signal, resource) pairs connected to this FolderKeeper
    signals,                 \* how often each signal was emitted for each resource
    pc,                      \* per thread: position inside AddContentFileToFolder
    frame,                   \* per thread: arguments and locals of AddContentFileToFolder
    alloc,                   \* one application of GetUniqueFilenameVersion to given names
    fileChanged,             \* the fileChanged(path) signals of m_FSWatcher not yet delivered
    changedOnDisk,           \* the calls of FileChangedOnDisk(): resource, and whether the book wrote the file
    called                   \* the resources ResourceFileChanged called FileChangedOnDisk() on when it ran last

vars == <<heap, m_Resources, m_Path2Resource, m_OPF, m_NCX, m_FSWatcher,
          m_SuspendedWatchedFiles, m_AccessMutex, disk, connections, signals,
          pc, frame, alloc, fileChanged, changedOnDisk, called>>

-----------------------------------------------------------------------------
(* QString, QChar *)

Digit == <<"0", "1", "2", "3", "4", "5", "6", "7", "8", "9">>

Upper == <<"A", "B", "C", "D", "E", "F", "G", "H", "I", "J", "K", "L", "M",
           "N", "O", "P", "Q", "R", "S", "T", "U", "V", "W", "X", "Y", "Z">>

Lower == <<"a", "b", "c", "d", "e", "f", "g", "h", "i", "j", "k", "l", "m",
           "n", "o", "p", "q", "r", "s", "t", "u", "v", "w", "x", "y", "z">>

IsDigit(c) == \E i \in DOMAIN Digit : Digit[i] = c

DigitValue(c) == (CHOOSE i \in DOMAIN Digit : Digit[i] = c) - 1

ToLowerChar(c) ==
    IF \E i \in DOMAIN Upper : Upper[i] = c
    THEN Lower[CHOOSE i \in DOMAIN Upper : Upper[i] = c]
    ELSE c

ToLower(s) == [i \in DOMAIN s |-> ToLowerChar(s[i])]

\* QString::compare(..., Qt::CaseInsensitive) == 0
EqualsCI(s, t) == ToLower(s) = ToLower(t)

\* QString::left(n), QString::right(n), QString::mid
Left(s, n) == SubSeq(s, 1, n)

\* (the whole string when n is negative or not less than its size)
Right(s, n) == IF n < 0 \/ n >= Len(s) THEN s ELSE SubSeq(s, Len(s) - n + 1, Len(s))

\* QString::contains(sub), QString::indexOf, QString::lastIndexOf (1-based, 0 = none)
ContainsStr(s, sub) ==
    \E i \in 1..(Len(s) - Len(sub) + 1) : SubSeq(s, i, i + Len(sub) - 1) = sub

IndexOfChar(s, c) ==
    IF \E i \in DOMAIN s : s[i] = c
    THEN CHOOSE i \in DOMAIN s : s[i] = c /\ \A j \in 1..(i - 1) : s[j] # c
    ELSE 0

LastIndexOfChar(s, c) ==
    IF \E i \in DOMAIN s : s[i] = c
    THEN CHOOSE i \in DOMAIN s : s[i] = c /\ \A j \in (i + 1)..Len(s) : s[j] # c
    ELSE 0

\* QStringList::contains(str, Qt::CaseInsensitive)
ListContainsCI(list, str) == \E i \in DOMAIN list : EqualsCI(list[i], str)

-----------------------------------------------------------------------------
(* QFileInfo *)

\* QFileInfo::fileName(): what follows the last '/'
FileName(path) == SubSeq(path, LastIndexOfChar(path, "/") + 1, Len(path))

\* QFileInfo::absolutePath(): what precedes the last '/'
AbsolutePath(path) == SubSeq(path, 1, LastIndexOfChar(path, "/") - 1)

\* QFileInfo::baseName(): the file name up to its first '.'
BaseName(path) ==
    LET name == FileName(path)
        dot  == IndexOfChar(name, ".")
    IN  IF dot = 0 THEN name ELSE SubSeq(name, 1, dot - 1)

\* QFileInfo::completeSuffix(): the file name after its first '.'
CompleteSuffix(path) ==
    LET name == FileName(path)
        dot  == IndexOfChar(name, ".")
    IN  IF dot = 0 THEN <<>> ELSE SubSeq(name, dot + 1, Len(name))

\* QFileInfo::suffix(): the file name after its last '.'
Suffix(path) ==
    LET name == FileName(path)
        dot  == LastIndexOfChar(name, ".")
    IN  IF dot = 0 THEN <<>> ELSE SubSeq(name, dot + 1, Len(name))

-----------------------------------------------------------------------------
(* int, QString::toInt, QString::arg *)

\* the largest value of the C++ int that holds number_suffix and max_num
IntMax == 2147483647

\* the decimal text of IntMax + 1, which no int holds
IntMaxPlusOneText == <<"2", "1", "4", "7", "4", "8", "3", "6", "4", "8">>

RECURSIVE ToIntFrom(_, _, _)
\* the value of the digits s[i..], continuing from acc; -1 when it exceeds IntMax
ToIntFrom(s, i, acc) ==
    IF i > Len(s) THEN acc
    ELSE LET d == DigitValue(s[i])
         IN  IF acc > (IntMax - d) \div 10
             THEN -1
             ELSE ToIntFrom(s, i + 1, acc * 10 + d)

\* QString::toInt(&ok) of a string of digits: the empty string and a value
\* that does not fit an int fail to convert and give 0
ToInt(s) ==
    LET v == IF s = <<>> THEN -1 ELSE ToIntFrom(s, 1, 0)
    IN  [ok |-> v # -1, value |-> IF v = -1 THEN 0 ELSE v]

RECURSIVE DecimalText(_)
\* the decimal digits of n >= 0
DecimalText(n) ==
    IF n < 10 THEN <<Digit[n + 1]>>
    ELSE DecimalText(n \div 10) \o <<Digit[(n % 10) + 1]>>

RECURSIVE ZeroPadded(_, _)
\* digits, preceded by '0' up to fieldWidth characters
ZeroPadded(digits, fieldWidth) ==
    IF Len(digits) >= fieldWidth THEN digits
    ELSE ZeroPadded(<<"0">> \o digits, fieldWidth)

\* QString("%1").arg(n, fieldWidth, 10, QChar('0')) for n >= 0
Arg(n, fieldWidth) == ZeroPadded(DecimalText(n), fieldWidth)

\* The texts QString("%1").arg(max_num + 1, max_num_length, 10, QChar('0'))
\* can give.  max_num + 1 overflows the int when max_num is IntMax, which is
\* undefined: the sum either wraps to the least int, printed with its sign
\* before the padding, or is carried out in the 64 bits of the qlonglong
\* that arg(int, ...) converts it to.
SuffixTexts(max_num, max_num_length) ==
    IF max_num < IntMax
    THEN {Arg(max_num + 1, max_num_length)}
    ELSE {<<"-">> \o ZeroPadded(IntMaxPlusOneText, max_num_length - 1),
          ZeroPadded(IntMaxPlusOneText, max_num_length)}

-----------------------------------------------------------------------------
(* FolderKeeper::GetUniqueFilenameVersion *)

RECURSIVE RemoveTrailingDigits(_)
\* QString::remove(QRegularExpression("\\d+$"))
RemoveTrailingDigits(s) ==
    IF s # <<>> /\ IsDigit(s[Len(s)])
    THEN RemoveTrailingDigits(SubSeq(s, 1, Len(s) - 1))
    ELSE s

\* filename_search.match(existing_file) for the case-insensitive pattern
\* ^name_prefix(\d*)\.extension$ (without \.extension when extension is
\* empty): hasMatch() and captured(1).  The pattern is anchored at both ends,
\* so the capture is what lies between the prefix and the extension.
FilenameSearchMatch(existing_file, name_prefix, extension) ==
    LET tail == IF extension # <<>> THEN <<".">> \o extension ELSE <<>>
        n    == Len(existing_file) - Len(name_prefix) - Len(tail)
        cap  == IF n >= 0
                THEN SubSeq(existing_file, Len(name_prefix) + 1, Len(name_prefix) + n)
                ELSE <<>>
    IN  [hasMatch |-> /\ n >= 0
                      /\ EqualsCI(Left(existing_file, Len(name_prefix)), name_prefix)
                      /\ EqualsCI(Right(existing_file, Len(tail)), tail)
                      /\ \A i \in DOMAIN cap : IsDigit(cap[i]),
         captured |-> cap]

RECURSIVE ScanFilenames(_, _, _, _, _)
\* the foreach loop over filenames from index i on: max_num and max_num_length
ScanFilenames(filenames, i, name_prefix, extension, best) ==
    IF i > Len(filenames) THEN best
    ELSE LET match         == FilenameSearchMatch(filenames[i], name_prefix, extension)
             number_suffix == ToInt(match.captured)
         IN  IF match.hasMatch /\ number_suffix.ok /\ number_suffix.value > best.max_num
             THEN ScanFilenames(filenames, i + 1, name_prefix, extension,
                                [max_num        |-> number_suffix.value,
                                 max_num_length |-> Len(match.captured)])
             ELSE ScanFilenames(filenames, i + 1, name_prefix, extension, best)

\* The names GetUniqueFilenameVersion(filename) can return when
\* GetAllFilenames() is the list filenames (one name, except where the
\* number overflows).
GetUniqueFilenameVersion(filename, filenames) ==
    IF ~ListContainsCI(filenames, filename)
    THEN {filename}
    ELSE LET name_prefix == RemoveTrailingDigits(BaseName(filename))
             extension   == CompleteSuffix(filename)
             scanned     == ScanFilenames(filenames, 1, name_prefix, extension,
                                          [max_num |-> -1, max_num_length |-> -1])
             found       == IF scanned.max_num = -1
                            THEN [max_num |-> 0, max_num_length |-> 4]
                            ELSE scanned
         IN  {name_prefix \o text \o
                  (IF extension # <<>> THEN <<".">> \o extension ELSE <<>>) :
              text \in SuffixTexts(found.max_num, found.max_num_length)}

-----------------------------------------------------------------------------
(* The folders of the book (FolderKeeper::CreateFolderStructure) *)

\* m_TempFolder.GetPath(): the main folder, which never ends with a '/'
m_FullPathToMainFolder == <<"/", "m">>

\* FILE_EXCEPTIONS
FILE_EXCEPTIONS == <<"M", "E", "T", "A", "-", "I", "N", "F">>

IMAGE_FOLDER_NAME == <<"I", "m", "a", "g", "e", "s">>

FONT_FOLDER_NAME == <<"F", "o", "n", "t", "s">>

TEXT_FOLDER_NAME == <<"T", "e", "x", "t">>

STYLE_FOLDER_NAME == <<"S", "t", "y", "l", "e", "s">>

AUDIO_FOLDER_NAME == <<"A", "u", "d", "i", "o">>

VIDEO_FOLDER_NAME == <<"V", "i", "d", "e", "o">>

MISC_FOLDER_NAME == <<"M", "i", "s", "c">>

OPF_FILE_NAME == <<"c", "o", "n", "t", "e", "n", "t", ".", "o", "p", "f">>

NCX_FILE_NAME == <<"t", "o", "c", ".", "n", "c", "x">>

m_FullPathToOEBPSFolder == m_FullPathToMainFolder \o <<"/", "O", "E", "B", "P", "S">>

m_FullPathToAudioFolder == m_FullPathToOEBPSFolder \o <<"/">> \o AUDIO_FOLDER_NAME

m_FullPathToVideoFolder == m_FullPathToOEBPSFolder \o <<"/">> \o VIDEO_FOLDER_NAME

m_FullPathToImagesFolder == m_FullPathToOEBPSFolder \o <<"/">> \o IMAGE_FOLDER_NAME

m_FullPathToFontsFolder == m_FullPathToOEBPSFolder \o <<"/">> \o FONT_FOLDER_NAME

m_FullPathToTextFolder == m_FullPathToOEBPSFolder \o <<"/">> \o TEXT_FOLDER_NAME

m_FullPathToStylesFolder == m_FullPathToOEBPSFolder \o <<"/">> \o STYLE_FOLDER_NAME

m_FullPathToMiscFolder == m_FullPathToOEBPSFolder \o <<"/">> \o MISC_FOLDER_NAME

\* m_KeyToLCP (FolderKeeper::CreateKeyToLCPMap); a key it lacks gives ""
m_KeyToLCP(key) ==
    CASE key = "text"   -> m_FullPathToMainFolder \o <<"/", "O", "E", "B", "P", "S", "/", "T", "e", "x", "t", "/">>
      [] key = "styles" -> m_FullPathToMainFolder \o <<"/", "O", "E", "B", "P", "S", "/", "S", "t", "y", "l", "e", "s", "/">>
      [] key = "images" -> m_FullPathToMainFolder \o <<"/", "O", "E", "B", "P", "S", "/", "I", "m", "a", "g", "e", "s", "/">>
      [] key = "fonts"  -> m_FullPathToMainFolder \o <<"/", "O", "E", "B", "P", "S", "/", "F", "o", "n", "t", "s", "/">>
      [] key = "audio"  -> m_FullPathToMainFolder \o <<"/", "O", "E", "B", "P", "S", "/", "A", "u", "d", "i", "o", "/">>
      [] key = "video"  -> m_FullPathToMainFolder \o <<"/", "O", "E", "B", "P", "S", "/", "V", "i", "d", "e", "o", "/">>
      [] key = "misc"   -> m_FullPathToMainFolder \o <<"/", "O", "E", "B", "P", "S", "/", "M", "i", "s", "c", "/">>
      [] key = "ncx"    -> m_FullPathToMainFolder \o <<"/", "O", "E", "B", "P", "S", "/">>
      [] key = "opf"    -> m_FullPathToMainFolder \o <<"/", "O", "E", "B", "P", "S", "/">>
      [] key = "other"  -> m_FullPathToMainFolder \o <<"/">>
      [] OTHER          -> <<>>

-----------------------------------------------------------------------------
(* MediaTypes: the classification table the registry consults *)

\* MediaTypes::GetMediaTypeFromExtension(extension, fallback)
GetMediaTypeFromExtension(extension, fallback) ==
    CASE extension = <<"x", "h", "t", "m", "l">> -> "application/xhtml+xml"
      [] extension = <<"c", "s", "s">>   -> "text/css"
      [] extension = <<"j", "p", "g">>   -> "image/jpeg"
      [] extension = <<"s", "v", "g">>   -> "image/svg+xml"
      [] extension = <<"t", "t", "f">>   -> "application/x-font-ttf"
      [] extension = <<"m", "p", "3">>   -> "audio/mpeg"
      [] extension = <<"m", "p", "4">>   -> "video/mp4"
      [] extension = <<"j", "s">>    -> "application/javascript"
      [] extension = <<"x", "m", "l">>   -> "application/oebps-page-map+xml"
      [] OTHER               -> fallback

\* MediaTypes::GetGroupFromMediaType(media_type, fallback)
GetGroupFromMediaType(media_type, fallback) ==
    CASE media_type = "application/xhtml+xml"          -> "Text"
      [] media_type = "text/css"                       -> "Styles"
      [] media_type = "image/jpeg"                     -> "Images"
      [] media_type = "image/svg+xml"                  -> "Images"
      [] media_type = "application/x-font-ttf"         -> "Fonts"
      [] media_type = "audio/mpeg"                     -> "Audio"
      [] media_type = "video/mp4"                      -> "Video"
      [] media_type = "application/javascript"         -> "Misc"
      [] media_type = "application/oebps-page-map+xml" -> "Misc"
      [] OTHER                                         -> fallback

\* MediaTypes::GetResourceDescFromMediaType(media_type, fallback)
GetResourceDescFromMediaType(media_type, fallback) ==
    CASE media_type = "application/xhtml+xml"          -> "HTMLResource"
      [] media_type = "text/css"                       -> "CSSResource"
      [] media_type = "image/jpeg"                     -> "ImageResource"
      [] media_type = "image/svg+xml"                  -> "SVGResource"
      [] media_type = "application/x-font-ttf"         -> "FontResource"
      [] media_type = "audio/mpeg"                     -> "AudioResource"
      [] media_type = "video/mp4"                      -> "VideoResource"
      [] media_type = "application/javascript"         -> "MiscTextResource"
      [] media_type = "application/oebps-page-map+xml" -> "XMLResource"
      [] OTHER                                         -> fallback

\* QString::toLower() of a group name
GroupToLower(group) ==
    CASE group = "Text"   -> "text"
      [] group = "Styles" -> "styles"
      [] group = "Images" -> "images"
      [] group = "Fonts"  -> "fonts"
      [] group = "Audio"  -> "audio"
      [] group = "Video"  -> "video"
      [] group = "Misc"   -> "misc"
      [] OTHER            -> group

\* FolderKeeper::DetermineFileGroup(filepath, mimetype)
DetermineFileGroup(filepath, mimetype) ==
    LET extension == ToLower(Suffix(filepath))
    IN  IF ContainsStr(filepath, FILE_EXCEPTIONS) THEN "other"
        ELSE LET mt == IF mimetype = ""
                       THEN GetMediaTypeFromExtension(extension, "")
                       ELSE mimetype
             IN  IF mt = "" THEN "other"
                 ELSE GroupToLower(GetGroupFromMediaType(mt, "other"))

-----------------------------------------------------------------------------
(* Bounds and the files outside the book *)

\* the most Resource objects constructed in one run
MaxResources == 3

\* the most ResourceRemoved signals emitted in one run
MaxRemoved == 2

NULL == 0

NoThread == "none"

\* the worker threads that call AddContentFileToFolder
Threads == {"t1", "t2"}

\* files that exist outside the book and can be added to it
ExistingFiles ==
    {<<"/", "i", "/", "x", ".", "x", "m", "l">>, <<"/", "j", "/", ".", "X", ".", "x", "m", "l">>, <<"/", "i", "/", "q", ".", "z", "z">>, <<"/", "i", "/", "M", "E", "T", "A", "-", "I", "N", "F", "/", "q", ".", "z", "z">>}

\* paths with no file behind them
MissingFiles == {<<"/", "i", "/", "g", "o", "n", "e", ".", "x", "m", "l">>}

\* the media type hints callers pass: none, one the table knows, one it does not
MimeTypes == {"", "application/xhtml+xml", "application/x-unknown"}

-----------------------------------------------------------------------------
(* Resource: the fields and accessors of the objects in heap *)

GetFullPath(r) == heap[r].m_FullFilePath

Filename(r) == FileName(heap[r].m_FullFilePath)

\* the full path without the main folder and the '/' that follows it
GetRelativePath(r) ==
    Right(heap[r].m_FullFilePath,
          Len(heap[r].m_FullFilePath) - Len(m_FullPathToMainFolder) - 1)

ShortPathName(r) == Filename(r)

Type(r) == heap[r].type

\* new Resource(...): the object gets the next unused identifier
NewIdentifier == Len(heap) + 1

\* source is no field of the object: it records the file the resource was
\* made from, for the statements about adding distinct files
NewResource(type, fullfilepath, source) ==
    [type |-> type, m_FullFilePath |-> fullfilepath, m_MediaType |-> "", m_LCP |-> <<>>,
     source |-> source]

-----------------------------------------------------------------------------
(* QHash, QFile *)

\* QHash::values(): the values in the order of the hash, which is any order
RECURSIVE Values(_)
Values(set) ==
    IF set = {} THEN {<<>>}
    ELSE UNION {{<<x>> \o rest : rest \in Values(set \ {x})} : x \in set}

\* QHash::operator[]= and QHash::remove on m_Path2Resource
HashInsert(hash, key, value) ==
    [k \in (DOMAIN hash) \cup {key} |-> IF k = key THEN value ELSE hash[k]]

HashRemove(hash, key) == [k \in (DOMAIN hash) \ {key} |-> hash[k]]

\* QHash::value(key, NULL)
HashValue(hash, key) == IF key \in DOMAIN hash THEN hash[key] ELSE NULL

\* QFileInfo(path).exists(), QFile::exists(path)
Exists(path) == path \in ExistingFiles \/ path \in disk

-----------------------------------------------------------------------------
(* FolderKeeper::FolderKeeper, CreateInfrastructureFiles *)

NoFrame ==
    [fullfilepath |-> <<>>, update_opf |-> FALSE, mimetype |-> "",
     normalised_file_path |-> <<>>, filename |-> <<>>, new_file_path |-> <<>>,
     resource |-> NULL]

RECURSIVE SumOver(_, _)
SumOver(f, set) ==
    IF set = {} THEN 0
    ELSE LET x == CHOOSE y \in set : TRUE IN f[x] + SumOver(f, set \ {x})

\* the signals of FolderKeeper
Signals == {"ResourceAdded", "ResourceRemoved"}

\* emit signal(resource)
Emit(signal, resource) == [signals EXCEPT ![<<signal, resource>>] = @ + 1]

\* how often a signal was emitted, for any resource
EmitCount(signal) == SumOver(signals, {signal} \X (1..MaxResources))

NoAlloc == [state |-> "idle", filename |-> <<>>, filenames |-> <<>>, result |-> <<>>]

OPFFullPath == m_FullPathToOEBPSFolder \o <<"/">> \o OPF_FILE_NAME

NCXFullPath == m_FullPathToOEBPSFolder \o <<"/">> \o NCX_FILE_NAME

Init ==
    /\ heap = <<[NewResource("OPFResource", OPFFullPath, <<>>) EXCEPT
                     !.m_LCP = m_KeyToLCP("opf")]>>
    /\ m_OPF = 1
    /\ m_NCX = NULL
    /\ m_Resources = {1}
    /\ m_Path2Resource = [p \in {<<"O", "E", "B", "P", "S", "/", "c", "o", "n", "t", "e", "n", "t", ".", "o", "p", "f">>} |-> 1]
    /\ m_FSWatcher = {}
    /\ m_SuspendedWatchedFiles = <<>>
    /\ m_AccessMutex = NoThread
    /\ disk = {OPFFullPath, m_FullPathToMainFolder \o <<"/", "M", "E", "T", "A", "-", "I", "N", "F", "/", "c", "o", "n", "t", "a", "i", "n", "e", "r", ".", "x", "m", "l">>}
    /\ connections = {<<"Deleted", 1>>}
    /\ signals = [s \in Signals \X (1..MaxResources) |-> 0]
    /\ pc = [t \in Threads |-> "idle"]
    /\ frame = [t \in Threads |-> NoFrame]
    /\ alloc = NoAlloc
    /\ fileChanged = {}
    /\ changedOnDisk = {}
    /\ called = <<>>

-----------------------------------------------------------------------------
(* FolderKeeper::GetAllFilenames *)

\* the file names of the resources, listed in the order m_Resources.values() gives
GetAllFilenames(order) == [i \in DOMAIN order |-> Filename(order[i])]

-----------------------------------------------------------------------------
(* FolderKeeper::GetHighestReadingOrder *)

RECURSIVE CountOfHtmlResources(_)
\* the loop of lines 243-247 over the list values
CountOfHtmlResources(values) ==
    IF values = <<>> THEN 0
    ELSE (IF Type(Head(values)) = "HTMLResource" THEN 1 ELSE 0) +
         CountOfHtmlResources(Tail(values))

\* GetHighestReadingOrder() returning the count itself
GetHighestReadingOrderAsCount(values) == CountOfHtmlResources(values)

\* the result, values being what m_Resources.values() gives
GetHighestReadingOrder(values) == CountOfHtmlResources(values) - 1

-----------------------------------------------------------------------------
(* FolderKeeper::AddContentFileToFolder, one step per stretch of it that *)
(* other threads can interleave with                                     *)

\* the threads that are to construct a resource yet
Constructing == {t \in Threads : pc[t] \in {"lock", "unique", "insert"}}

\* lines 134-143: a file name that starts with a '.' loses it
NormalisedFilePath(fullfilepath) ==
    LET fileName == FileName(fullfilepath)
    IN  IF Left(fileName, 1) = <<".">>
        THEN AbsolutePath(fullfilepath) \o <<"/">> \o Right(fileName, Len(fileName) - 1)
        ELSE fullfilepath

\* the call without the existence check of lines 129-131
AddContentFileUnchecked(t, fullfilepath, update_opf, mimetype) ==
    /\ pc[t] \in {"idle", "threw"}
    /\ Len(heap) + Cardinality(Constructing) < MaxResources
    /\ pc' = [pc EXCEPT ![t] = "lock"]
    /\ frame' = [frame EXCEPT ![t] =
          [NoFrame EXCEPT
              !.fullfilepath = fullfilepath,
              !.update_opf = update_opf,
              !.mimetype = mimetype,
              !.normalised_file_path = NormalisedFilePath(fullfilepath)]]
    /\ UNCHANGED <<heap, m_Resources, m_Path2Resource, m_OPF, m_NCX, m_FSWatcher,
                   m_SuspendedWatchedFiles, m_AccessMutex, disk, connections,
                   signals, alloc, fileChanged, changedOnDisk, called>>

\* lines 129-143: the existence check and the leading-dot normalisation.
\* FileDoesNotExist carries the path; the frame of a call that threw keeps it.
AddContentFileToFolder(t, fullfilepath, update_opf, mimetype) ==
    /\ pc[t] \in {"idle", "threw"}
    /\ IF ~Exists(fullfilepath)
       THEN /\ pc' = [pc EXCEPT ![t] = "threw"]
            /\ frame' = [frame EXCEPT ![t] =
                  [NoFrame EXCEPT !.fullfilepath = fullfilepath]]
       ELSE /\ Len(heap) + Cardinality(Constructing) < MaxResources
            /\ pc' = [pc EXCEPT ![t] = "lock"]
            /\ frame' = [frame EXCEPT ![t] =
                  [NoFrame EXCEPT
                      !.fullfilepath = fullfilepath,
                      !.update_opf = update_opf,
                      !.mimetype = mimetype,
                      !.normalised_file_path = NormalisedFilePath(fullfilepath)]]
    /\ UNCHANGED <<heap, m_Resources, m_Path2Resource, m_OPF, m_NCX, m_FSWatcher,
                   m_SuspendedWatchedFiles, m_AccessMutex, disk, connections,
                   signals, alloc, fileChanged, changedOnDisk, called>>

\* a locker that takes m_AccessMutex without waiting for its holder
LockWithoutWaiting(t) ==
    /\ pc[t] = "lock"
    /\ m_AccessMutex' = t
    /\ pc' = [pc EXCEPT ![t] = "unique"]
    /\ UNCHANGED <<heap, m_Resources, m_Path2Resource, m_OPF, m_NCX, m_FSWatcher,
                   m_SuspendedWatchedFiles, disk, connections, signals, frame, alloc,
                   fileChanged, changedOnDisk, called>>

\* line 149: QMutexLocker locker(&m_AccessMutex)
LockAccessMutex(t) ==
    /\ pc[t] = "lock"
    /\ m_AccessMutex = NoThread
    /\ m_AccessMutex' = t
    /\ pc' = [pc EXCEPT ![t] = "unique"]
    /\ UNCHANGED <<heap, m_Resources, m_Path2Resource, m_OPF, m_NCX, m_FSWatcher,
                   m_SuspendedWatchedFiles, disk, connections, signals, frame, alloc,
                   fileChanged, changedOnDisk, called>>

\* line 150: filename = GetUniqueFilenameVersion(...)
UniqueFilename(t) ==
    /\ pc[t] = "unique"
    /\ \E order \in Values(m_Resources) :
         \E filename \in GetUniqueFilenameVersion(
                             FileName(frame[t].normalised_file_path),
                             GetAllFilenames(order)) :
            frame' = [frame EXCEPT ![t].filename = filename]
    /\ pc' = [pc EXCEPT ![t] = "insert"]
    /\ UNCHANGED <<heap, m_Resources, m_Path2Resource, m_OPF, m_NCX, m_FSWatcher,
                   m_SuspendedWatchedFiles, m_AccessMutex, disk, connections,
                   signals, alloc, fileChanged, changedOnDisk, called>>

\* the placement whose fallback branch stages the file with the text files
PlacementFallbackInText(fullfilepath, resdesc, filename) ==
    IF ContainsStr(fullfilepath, FILE_EXCEPTIONS)
    THEN [type |-> "Resource",
          new_file_path |-> m_FullPathToMainFolder \o
              Right(fullfilepath, Len(fullfilepath) - Len(m_FullPathToMainFolder))]
    ELSE CASE resdesc \in {"MiscTextResource", "XMLResource"} ->
                [type |-> resdesc, new_file_path |-> m_FullPathToMiscFolder \o <<"/">> \o filename]
           [] resdesc = "AudioResource" ->
                [type |-> resdesc, new_file_path |-> m_FullPathToAudioFolder \o <<"/">> \o filename]
           [] resdesc = "VideoResource" ->
                [type |-> resdesc, new_file_path |-> m_FullPathToVideoFolder \o <<"/">> \o filename]
           [] resdesc \in {"ImageResource", "SVGResource"} ->
                [type |-> resdesc, new_file_path |-> m_FullPathToImagesFolder \o <<"/">> \o filename]
           [] resdesc = "FontResource" ->
                [type |-> resdesc, new_file_path |-> m_FullPathToFontsFolder \o <<"/">> \o filename]
           [] resdesc = "CSSResource" ->
                [type |-> resdesc, new_file_path |-> m_FullPathToStylesFolder \o <<"/">> \o filename]
           [] OTHER ->
                [type |-> "HTMLResource", new_file_path |-> m_FullPathToTextFolder \o <<"/">> \o filename]

\* lines 160-209: the class and the path of the new resource
Placement(fullfilepath, resdesc, filename) ==
    IF ContainsStr(fullfilepath, FILE_EXCEPTIONS)
    THEN [type |-> "Resource",
          new_file_path |-> m_FullPathToMainFolder \o
              Right(fullfilepath, Len(fullfilepath) - Len(m_FullPathToMainFolder))]
    ELSE CASE resdesc = "MiscTextResource" ->
                [type |-> resdesc, new_file_path |-> m_FullPathToMiscFolder \o <<"/">> \o filename]
           [] resdesc = "AudioResource" ->
                [type |-> resdesc, new_file_path |-> m_FullPathToAudioFolder \o <<"/">> \o filename]
           [] resdesc = "VideoResource" ->
                [type |-> resdesc, new_file_path |-> m_FullPathToVideoFolder \o <<"/">> \o filename]
           [] resdesc = "ImageResource" ->
                [type |-> resdesc, new_file_path |-> m_FullPathToImagesFolder \o <<"/">> \o filename]
           [] resdesc = "SVGResource" ->
                [type |-> resdesc, new_file_path |-> m_FullPathToImagesFolder \o <<"/">> \o filename]
           [] resdesc = "FontResource" ->
                [type |-> resdesc, new_file_path |-> m_FullPathToFontsFolder \o <<"/">> \o filename]
           [] resdesc = "HTMLResource" ->
                [type |-> resdesc, new_file_path |-> m_FullPathToTextFolder \o <<"/">> \o filename]
           [] resdesc = "CSSResource" ->
                [type |-> resdesc, new_file_path |-> m_FullPathToStylesFolder \o <<"/">> \o filename]
           [] resdesc = "XMLResource" ->
                [type |-> resdesc, new_file_path |-> m_FullPathToMiscFolder \o <<"/">> \o filename]
           [] OTHER ->
                [type |-> "Resource", new_file_path |-> m_FullPathToMiscFolder \o <<"/">> \o filename]

\* lines 160-209: lcppath, which the fallback branch alone overrides
PlacementLCP(fullfilepath, resdesc, group) ==
    IF \/ ContainsStr(fullfilepath, FILE_EXCEPTIONS)
       \/ resdesc \in {"MiscTextResource", "AudioResource", "VideoResource",
                       "ImageResource", "SVGResource", "FontResource",
                       "HTMLResource", "CSSResource", "XMLResource"}
    THEN m_KeyToLCP(group)
    ELSE m_KeyToLCP("misc")

\* lines 151-220: classification, construction of the resource, insertion
\* into both hashes; the locker unlocks at the end of its block
InsertResource(t) ==
    /\ pc[t] = "insert"
    /\ LET f         == frame[t]
           extension == ToLower(Suffix(f.normalised_file_path))
           mt        == IF f.mimetype = ""
                        THEN GetMediaTypeFromExtension(extension, "")
                        ELSE f.mimetype
           group     == DetermineFileGroup(f.normalised_file_path, mt)
           resdesc   == GetResourceDescFromMediaType(mt, "Resource")
           placed    == Placement(f.fullfilepath, resdesc, f.filename)
           resource  == NewIdentifier
           book_path == Right(placed.new_file_path,
                              Len(placed.new_file_path) - Len(m_FullPathToMainFolder) - 1)
       IN  /\ heap' = Append(heap,
                        [NewResource(placed.type, placed.new_file_path, f.fullfilepath) EXCEPT
                            !.m_MediaType = mt,
                            !.m_LCP = PlacementLCP(f.fullfilepath, resdesc, group)])
           /\ m_Resources' = m_Resources \cup {resource}
           /\ m_Path2Resource' = HashInsert(m_Path2Resource, book_path, resource)
           /\ frame' = [frame EXCEPT ![t].new_file_path = placed.new_file_path,
                                     ![t].resource = resource]
    /\ m_AccessMutex' = NoThread
    /\ pc' = [pc EXCEPT ![t] = "copy"]
    /\ UNCHANGED <<m_OPF, m_NCX, m_FSWatcher, m_SuspendedWatchedFiles, disk,
                   connections, signals, alloc, fileChanged, changedOnDisk, called>>

\* line 221: QFile::copy(fullfilepath, new_file_path), whose result the code
\* drops; it copies nothing when the destination exists, and can fail
CopyFile(t, copied) ==
    /\ pc[t] = "copy"
    /\ disk' = IF copied /\ ~Exists(frame[t].new_file_path)
               THEN disk \cup {frame[t].new_file_path}
               ELSE disk
    /\ pc' = [pc EXCEPT ![t] = "connect"]
    /\ UNCHANGED <<heap, m_Resources, m_Path2Resource, m_OPF, m_NCX, m_FSWatcher,
                   m_SuspendedWatchedFiles, m_AccessMutex, connections, signals,
                   frame, alloc, fileChanged, changedOnDisk, called>>

\* lines 223-236: the connections, the ResourceAdded signal, the return
ConnectAndEmit(t) ==
    /\ pc[t] = "connect"
    /\ connections' = connections \cup {<<"Deleted", frame[t].resource>>,
                                        <<"Renamed", frame[t].resource>>}
    /\ signals' = IF frame[t].update_opf
                  THEN Emit("ResourceAdded", frame[t].resource)
                  ELSE signals
    /\ pc' = [pc EXCEPT ![t] = "idle"]
    /\ frame' = [frame EXCEPT ![t] = NoFrame]
    /\ UNCHANGED <<heap, m_Resources, m_Path2Resource, m_OPF, m_NCX, m_FSWatcher,
                   m_SuspendedWatchedFiles, m_AccessMutex, disk, alloc,
                   fileChanged, changedOnDisk, called>>

-----------------------------------------------------------------------------
(* The operations of the coordinating thread.  They take no lock; the     *)
(* coordinating thread runs them one at a time and not while a worker is   *)
(* inside the locked block of AddContentFileToFolder.                      *)

Coordinating == m_AccessMutex = NoThread

\* QStringList::removeAll(str)
RemoveAll(list, str) == SelectSeq(list, LAMBDA x : x # str)

\* RemoveResource(resource) without the removeAll of line 461
RemoveResourceKeepingSuspended(resource) ==
    /\ m_Resources' = m_Resources \ {resource}
    /\ m_Path2Resource' = HashRemove(m_Path2Resource, GetRelativePath(resource))
    /\ m_FSWatcher' = m_FSWatcher \ {GetFullPath(resource)}
    /\ UNCHANGED m_SuspendedWatchedFiles
    /\ signals' = Emit("ResourceRemoved", resource)

\* FolderKeeper::RemoveResource(resource): what the slot does, whoever calls it
RemoveResource(resource) ==
    /\ m_Resources' = m_Resources \ {resource}
    /\ m_Path2Resource' = HashRemove(m_Path2Resource, GetRelativePath(resource))
    /\ m_FSWatcher' = m_FSWatcher \ {GetFullPath(resource)}
    /\ m_SuspendedWatchedFiles' = RemoveAll(m_SuspendedWatchedFiles, GetFullPath(resource))
    /\ signals' = Emit("ResourceRemoved", resource)

\* the slot RemoveResource run by the signal Deleted(resource) of a resource
\* whose signal is connected to it; the signal can come more than once
RemoveResourceCall(resource) ==
    /\ Coordinating
    /\ <<"Deleted", resource>> \in connections
    /\ EmitCount("ResourceRemoved") < MaxRemoved
    /\ RemoveResource(resource)
    /\ UNCHANGED <<heap, m_OPF, m_NCX, m_AccessMutex, disk, connections, pc, frame,
                   alloc, fileChanged, changedOnDisk, called>>

\* FolderKeeper::ResourceRenamed(resource, old_full_path): m_Path2Resource
\* afterwards, resource having the book path new_book_path by now;
\* operator[] on the old path gives NULL when the hash has no such key
ResourceRenamed(new_book_path, old_full_path) ==
    LET book_path == Right(old_full_path,
                           Len(old_full_path) - Len(m_FullPathToMainFolder) - 1)
        res       == HashValue(m_Path2Resource, book_path)
    IN  HashInsert(HashRemove(m_Path2Resource, book_path), new_book_path, res)

\* the names the coordinating thread renames resources to
NewFilenames == {<<"y", ".", "x", "m", "l">>}

\* Resource::RenameTo(new_filename) of a resource whose Renamed signal is
\* connected: the file is renamed on disk (QFileSystemWatcher stops watching
\* a renamed file), the resource takes the new path, and Renamed(resource,
\* old path) runs the slot ResourceRenamed.  Callers offer only names that
\* no resource of the book bears.
RenameTo(resource, new_filename) ==
    LET old_full_path == GetFullPath(resource)
        new_full_path == AbsolutePath(old_full_path) \o <<"/">> \o new_filename
        new_book_path == Right(new_full_path,
                               Len(new_full_path) - Len(m_FullPathToMainFolder) - 1)
    IN  /\ Coordinating
        /\ resource \in m_Resources
        /\ <<"Renamed", resource>> \in connections
        /\ \A r \in m_Resources : ~EqualsCI(Filename(r), new_filename)
        /\ old_full_path \in disk
        /\ new_full_path \notin disk
        /\ disk' = (disk \ {old_full_path}) \cup {new_full_path}
        /\ m_FSWatcher' = m_FSWatcher \ {old_full_path}
        /\ heap' = [heap EXCEPT ![resource].m_FullFilePath = new_full_path]
        /\ m_Path2Resource' = ResourceRenamed(new_book_path, old_full_path)
        /\ UNCHANGED <<m_Resources, m_OPF, m_NCX, m_SuspendedWatchedFiles,
                       m_AccessMutex, connections, signals, pc, frame, alloc,
                       fileChanged, changedOnDisk, called>>

\* FolderKeeper::AddNCXToFolder(version); calling it while the book has an
\* NCX is a caller's error
AddNCXToFolder ==
    /\ Coordinating
    /\ m_NCX = NULL
    /\ Len(heap) + Cardinality(Constructing) < MaxResources
    /\ heap' = Append(heap, [NewResource("NCXResource", NCXFullPath, <<>>) EXCEPT
                                !.m_LCP = m_KeyToLCP("ncx")])
    /\ m_NCX' = NewIdentifier
    /\ m_Resources' = m_Resources \cup {NewIdentifier}
    /\ m_Path2Resource' =
          HashInsert(m_Path2Resource,
                     Right(NCXFullPath, Len(NCXFullPath) - Len(m_FullPathToMainFolder) - 1),
                     NewIdentifier)
    /\ connections' = connections \cup {<<"Deleted", NewIdentifier>>}
    /\ UNCHANGED <<m_OPF, m_FSWatcher, m_SuspendedWatchedFiles, m_AccessMutex, disk,
                   signals, pc, frame, alloc, fileChanged, changedOnDisk, called>>

\* FolderKeeper::RemoveNCXFromFolder()
RemoveNCXFromFolder ==
    /\ Coordinating
    /\ IF m_NCX = NULL
       THEN UNCHANGED vars
       ELSE /\ EmitCount("ResourceRemoved") < MaxRemoved
            /\ connections' = connections \ {<<"Deleted", m_NCX>>}
            /\ RemoveResource(m_NCX)
            /\ m_NCX' = NULL
            /\ UNCHANGED <<heap, m_OPF, m_AccessMutex, disk, pc, frame, alloc,
                           fileChanged, changedOnDisk, called>>

\* OpenExternally::mayOpen(type): the kinds an external editor may open
MayOpen(type) ==
    type \in {"HTMLResource", "CSSResource", "ImageResource", "SVGResource",
              "FontResource", "MiscTextResource", "XMLResource",
              "AudioResource", "VideoResource"}

\* QFileSystemWatcher::addPath(path): a path with no file is not added
AddPath(files, path) == IF Exists(path) THEN files \cup {path} ELSE files

\* FolderKeeper::WatchResourceFile(resource)
WatchResourceFile(resource) ==
    /\ resource \in m_Resources
    /\ IF MayOpen(Type(resource)) /\ GetFullPath(resource) \notin m_FSWatcher
       THEN m_FSWatcher' = AddPath(m_FSWatcher, GetFullPath(resource))
       ELSE UNCHANGED m_FSWatcher
    /\ UNCHANGED <<heap, m_Resources, m_Path2Resource, m_OPF, m_NCX,
                   m_SuspendedWatchedFiles, m_AccessMutex, disk, connections,
                   signals, pc, frame, alloc, fileChanged, changedOnDisk, called>>

\* what SuspendWatchingResources() makes of the watched files and the list of
\* suspended ones; files() lists the watched paths in any order
Suspended(files, suspended) ==
    IF suspended = <<>> /\ files # {}
    THEN {[files |-> {}, suspended |-> suspended \o list] : list \in Values(files)}
    ELSE {[files |-> files, suspended |-> suspended]}

\* ResumeWatchingResources() without the test QFile::exists(path)
ResumedUnchecked(files, suspended) ==
    [files |-> files \cup {suspended[i] : i \in DOMAIN suspended},
     suspended |-> <<>>]

\* what ResumeWatchingResources() makes of the watched files and the list of
\* suspended ones
Resumed(files, suspended) ==
    IF suspended # <<>>
    THEN [files |-> files \cup
                       {suspended[i] : i \in
                           {j \in DOMAIN suspended : Exists(suspended[j])}},
          suspended |-> <<>>]
    ELSE [files |-> files, suspended |-> suspended]

\* SuspendWatchingResources() without the test of m_SuspendedWatchedFiles
SuspendWatchingUnconditionally ==
    /\ \E files \in Values(m_FSWatcher) :
          m_SuspendedWatchedFiles' = m_SuspendedWatchedFiles \o files
    /\ m_FSWatcher' = {}
    /\ UNCHANGED <<heap, m_Resources, m_Path2Resource, m_OPF, m_NCX, m_AccessMutex,
                   disk, connections, signals, pc, frame, alloc,
                   fileChanged, changedOnDisk, called>>

\* FolderKeeper::SuspendWatchingResources()
SuspendWatchingResources ==
    /\ \E after \in Suspended(m_FSWatcher, m_SuspendedWatchedFiles) :
          /\ m_FSWatcher' = after.files
          /\ m_SuspendedWatchedFiles' = after.suspended
    /\ UNCHANGED <<heap, m_Resources, m_Path2Resource, m_OPF, m_NCX, m_AccessMutex,
                   disk, connections, signals, pc, frame, alloc,
                   fileChanged, changedOnDisk, called>>

\* FolderKeeper::ResumeWatchingResources()
ResumeWatchingResources ==
    /\ m_FSWatcher' = Resumed(m_FSWatcher, m_SuspendedWatchedFiles).files
    /\ m_SuspendedWatchedFiles' =
          Resumed(m_FSWatcher, m_SuspendedWatchedFiles).suspended
    /\ UNCHANGED <<heap, m_Resources, m_Path2Resource, m_OPF, m_NCX, m_AccessMutex,
                   disk, connections, signals, pc, frame, alloc,
                   fileChanged, changedOnDisk, called>>

\* a program outside the book writes the file at path: QFileSystemWatcher
\* raises fileChanged(path) for a file it watches, delivered later
ExternalEdit(path) ==
    /\ path \in m_FSWatcher
    /\ fileChanged' = fileChanged \cup {[path |-> path, own |-> FALSE]}
    /\ UNCHANGED <<heap, m_Resources, m_Path2Resource, m_OPF, m_NCX, m_FSWatcher,
                   m_SuspendedWatchedFiles, m_AccessMutex, disk, connections,
                   signals, pc, frame, alloc, changedOnDisk, called>>

\* an editor writes a temporary file and moves it over the watched file at
\* path (the case of lines 489-491): QFileSystemWatcher raises
\* fileChanged(path) and no longer watches the path; the file is there
ReplaceFile(path) ==
    /\ path \in m_FSWatcher
    /\ m_FSWatcher' = m_FSWatcher \ {path}
    /\ fileChanged' = fileChanged \cup {[path |-> path, own |-> FALSE]}
    /\ UNCHANGED <<heap, m_Resources, m_Path2Resource, m_OPF, m_NCX,
                   m_SuspendedWatchedFiles, m_AccessMutex, disk, connections,
                   signals, pc, frame, alloc, changedOnDisk, called>>

\* the book writes the file of one of its resources between
\* SuspendWatchingResources() and ResumeWatchingResources(), paths being
\* suspended; QFileSystemWatcher raises fileChanged(path) if it watches the file
SaveResourceFile(resource) ==
    /\ resource \in m_Resources
    /\ m_SuspendedWatchedFiles # <<>>
    /\ Exists(GetFullPath(resource))
    /\ fileChanged' =
          IF GetFullPath(resource) \in m_FSWatcher
          THEN fileChanged \cup {[path |-> GetFullPath(resource), own |-> TRUE]}
          ELSE fileChanged
    /\ UNCHANGED <<heap, m_Resources, m_Path2Resource, m_OPF, m_NCX, m_FSWatcher,
                   m_SuspendedWatchedFiles, m_AccessMutex, disk, connections,
                   signals, pc, frame, alloc, changedOnDisk, called>>

\* ResourceFileChanged(path) without the addPath of lines 492-494
ResourceFileChangedNoAddPath(event) ==
    /\ event \in fileChanged
    /\ fileChanged' = fileChanged \ {event}
    /\ IF Exists(event.path)
       THEN /\ UNCHANGED m_FSWatcher
            /\ \E values \in Values(m_Resources) :
                  LET found == {i \in DOMAIN values :
                                   GetFullPath(values[i]) = event.path}
                      first == CHOOSE i \in found : \A j \in found : i <= j
                  IN  IF found = {}
                      THEN /\ called' = <<>>
                           /\ UNCHANGED changedOnDisk
                      ELSE /\ called' = <<values[first]>>
                           /\ changedOnDisk' = changedOnDisk \cup
                                 {[resource |-> values[first], own |-> event.own]}
       ELSE /\ called' = <<>>
            /\ UNCHANGED <<m_FSWatcher, changedOnDisk>>
    /\ UNCHANGED <<heap, m_Resources, m_Path2Resource, m_OPF, m_NCX,
                   m_SuspendedWatchedFiles, m_AccessMutex, disk, connections,
                   signals, pc, frame, alloc>>

\* FolderKeeper::ResourceFileChanged(path), the slot of fileChanged(path), run
\* for a signal that was raised; FileChangedOnDisk() is called on the first
\* resource of m_Resources.values() that has the path
ResourceFileChanged(event) ==
    /\ event \in fileChanged
    /\ fileChanged' = fileChanged \ {event}
    /\ IF Exists(event.path)
       THEN /\ m_FSWatcher' = IF event.path \notin m_FSWatcher
                              THEN AddPath(m_FSWatcher, event.path)
                              ELSE m_FSWatcher
            /\ \E values \in Values(m_Resources) :
                  LET found == {i \in DOMAIN values :
                                   GetFullPath(values[i]) = event.path}
                      first == CHOOSE i \in found : \A j \in found : i <= j
                  IN  IF found = {}
                      THEN /\ called' = <<>>
                           /\ UNCHANGED changedOnDisk
                      ELSE /\ called' = <<values[first]>>
                           /\ changedOnDisk' = changedOnDisk \cup
                                 {[resource |-> values[first], own |-> event.own]}
       ELSE /\ called' = <<>>
            /\ UNCHANGED <<m_FSWatcher, changedOnDisk>>
    /\ UNCHANGED <<heap, m_Resources, m_Path2Resource, m_OPF, m_NCX,
                   m_SuspendedWatchedFiles, m_AccessMutex, disk, connections,
                   signals, pc, frame, alloc>>

-----------------------------------------------------------------------------
(* Specifications *)

\* the files that were added, or are being added
Added ==
    {heap[r].source : r \in DOMAIN heap} \cup
    {frame[t].fullfilepath : t \in Constructing}

\* the thread that adds files while the coordinating thread is at work,
\* and the files it adds
Importer == "t1"

ImportedFiles ==
    {<<"/", "i", "/", "q", ".", "z", "z">>,
     <<"/", "i", "/", "M", "E", "T", "A", "-", "I", "N", "F", "/", "q", ".", "z", "z">>,
     <<"/", "i", "/", "g", "o", "n", "e", ".", "x", "m", "l">>}

\* calls of AddContentFileToFolder only, each with a file not added before,
\* on a file system where copying does not fail
NextAdd ==
    \E t \in Threads :
        \/ \E fullfilepath \in ExistingFiles \cup MissingFiles,
              update_opf \in BOOLEAN, mimetype \in MimeTypes :
              /\ fullfilepath \notin Added
              /\ AddContentFileToFolder(t, fullfilepath, update_opf, mimetype)
        \/ LockAccessMutex(t)
        \/ UniqueFilename(t)
        \/ InsertResource(t)
        \/ CopyFile(t, TRUE)
        \/ ConnectAndEmit(t)

SpecAdd == Init /\ [][NextAdd]_vars

\* the Importer adds files, among them one that does not exist, while the
\* resources are watched and the watching is suspended and resumed
NextImport ==
    \/ \E t \in {Importer} :
          \/ \E fullfilepath \in ImportedFiles,
                update_opf \in BOOLEAN, mimetype \in MimeTypes :
                AddContentFileToFolder(t, fullfilepath, update_opf, mimetype)
          \/ LockAccessMutex(t)
          \/ UniqueFilename(t)
          \/ InsertResource(t)
          \/ \E copied \in BOOLEAN : CopyFile(t, copied)
          \/ ConnectAndEmit(t)
    \/ \E resource \in DOMAIN heap : WatchResourceFile(resource)
    \/ SuspendWatchingResources
    \/ ResumeWatchingResources

SpecImport == Init /\ [][NextImport]_vars

\* every operation, the workers' calls interleaved with the coordinating thread
Next ==
    \/ \E t \in {Importer} :
          \/ \E fullfilepath \in ImportedFiles,
                update_opf \in BOOLEAN, mimetype \in MimeTypes :
                AddContentFileToFolder(t, fullfilepath, update_opf, mimetype)
          \/ LockAccessMutex(t)
          \/ UniqueFilename(t)
          \/ InsertResource(t)
          \/ \E copied \in BOOLEAN : CopyFile(t, copied)
          \/ ConnectAndEmit(t)
    \/ \E resource \in DOMAIN heap :
          \/ RemoveResourceCall(resource)
          \/ WatchResourceFile(resource)
          \/ \E new_filename \in NewFilenames : RenameTo(resource, new_filename)
    \/ AddNCXToFolder
    \/ RemoveNCXFromFolder
    \/ SuspendWatchingResources
    \/ ResumeWatchingResources

Spec == Init /\ [][Next]_vars

\* the Importer adds files while the resources are watched, files are written
\* by other programs and by the book, the watching suspended around the
\* writes of the book, and the signals of the watcher are delivered
NextWatch ==
    \/ \E t \in {Importer} :
          \/ \E fullfilepath \in ImportedFiles,
                update_opf \in BOOLEAN, mimetype \in MimeTypes :
                AddContentFileToFolder(t, fullfilepath, update_opf, mimetype)
          \/ LockAccessMutex(t)
          \/ UniqueFilename(t)
          \/ InsertResource(t)
          \/ \E copied \in BOOLEAN : CopyFile(t, copied)
          \/ ConnectAndEmit(t)
    \/ \E resource \in DOMAIN heap :
          \/ WatchResourceFile(resource)
          \/ SaveResourceFile(resource)
    \/ SuspendWatchingResources
    \/ ResumeWatchingResources
    \/ \E path \in m_FSWatcher : ExternalEdit(path)
    \/ \E event \in fileChanged : ResourceFileChanged(event)

SpecWatch == Init /\ [][NextWatch]_vars

\* the Importer adds HTML files, which are watched and renamed while the
\* watching is suspended and resumed
NextSuspend ==
    \/ \E t \in {Importer} :
          \/ \E fullfilepath \in {<<"/", "i", "/", "q", ".", "z", "z">>},
                update_opf \in BOOLEAN :
                AddContentFileToFolder(t, fullfilepath, update_opf,
                                       "application/xhtml+xml")
          \/ LockAccessMutex(t)
          \/ UniqueFilename(t)
          \/ InsertResource(t)
          \/ \E copied \in BOOLEAN : CopyFile(t, copied)
          \/ ConnectAndEmit(t)
    \/ \E resource \in DOMAIN heap :
          \/ WatchResourceFile(resource)
          \/ \E new_filename \in NewFilenames : RenameTo(resource, new_filename)
    \/ SuspendWatchingResources
    \/ ResumeWatchingResources

SpecSuspend == Init /\ [][NextSuspend]_vars

\* the Importer adds HTML files, which are watched, written and replaced by
\* other programs, renamed and removed, while the signals of the watcher
\* are delivered; the copies succeed and the OPF is not updated
NextEvents ==
    \/ \E t \in {Importer} :
          \/ \E fullfilepath \in {<<"/", "i", "/", "q", ".", "z", "z">>} :
                AddContentFileToFolder(t, fullfilepath, FALSE,
                                       "application/xhtml+xml")
          \/ LockAccessMutex(t)
          \/ UniqueFilename(t)
          \/ InsertResource(t)
          \/ CopyFile(t, TRUE)
          \/ ConnectAndEmit(t)
    \/ \E resource \in {r \in DOMAIN heap : Type(r) = "HTMLResource"} :
          \/ WatchResourceFile(resource)
          \/ RemoveResourceCall(resource)
          \/ \E new_filename \in NewFilenames : RenameTo(resource, new_filename)
    \/ \E path \in m_FSWatcher :
          \/ ExternalEdit(path)
          \/ ReplaceFile(path)
    \/ \E event \in fileChanged : ResourceFileChanged(event)

SpecEvents == Init /\ [][NextEvents]_vars

\* the Importer adds HTML files, which are watched, renamed and removed while
\* the watching is suspended and resumed
NextUnwatch ==
    \/ \E t \in {Importer} :
          \/ \E fullfilepath \in {<<"/", "i", "/", "q", ".", "z", "z">>} :
                AddContentFileToFolder(t, fullfilepath, FALSE,
                                       "application/xhtml+xml")
          \/ LockAccessMutex(t)
          \/ UniqueFilename(t)
          \/ InsertResource(t)
          \/ \E copied \in BOOLEAN : CopyFile(t, copied)
          \/ ConnectAndEmit(t)
    \/ \E resource \in {r \in DOMAIN heap : Type(r) = "HTMLResource"} :
          \/ WatchResourceFile(resource)
          \/ RemoveResourceCall(resource)
          \/ \E new_filename \in NewFilenames : RenameTo(resource, new_filename)
    \/ SuspendWatchingResources
    \/ ResumeWatchingResources

SpecUnwatch == Init /\ [][NextUnwatch]_vars

\* the Importer adds files, HTML and other, while the coordinating thread
\* removes resources and adds and removes the NCX
NextRegistry ==
    \/ \E t \in {Importer} :
          \/ \E fullfilepath \in {<<"/", "i", "/", "q", ".", "z", "z">>},
                update_opf \in BOOLEAN,
                mimetype \in {"", "application/xhtml+xml"} :
                AddContentFileToFolder(t, fullfilepath, update_opf, mimetype)
          \/ LockAccessMutex(t)
          \/ UniqueFilename(t)
          \/ InsertResource(t)
          \/ \E copied \in BOOLEAN : CopyFile(t, copied)
          \/ ConnectAndEmit(t)
    \/ \E resource \in DOMAIN heap : RemoveResourceCall(resource)
    \/ AddNCXToFolder
    \/ RemoveNCXFromFolder

SpecRegistry == Init /\ [][NextRegistry]_vars

-----------------------------------------------------------------------------
(* GetUniqueFilenameVersion applied to given names: the name asked for and  *)
(* the list GetAllFilenames() returns at the time                           *)

\* the longest list of file names handed to GetUniqueFilenameVersion
MaxFilenames == 3

\* file names of resources of a book
Names ==
    {<<"S", "e", "c", "t", "i", "o", "n", "0", "0", "0", "1", ".", "x", "h", "t", "m", "l">>, <<"S", "e", "c", "t", "i", "o", "n", "0", "0", "9", "9", ".", "x", "h", "t", "m", "l">>, <<"c", "h", "a", "p", "t", "e", "r", ".", "x", "h", "t", "m", "l">>, <<"C", "h", "a", "p", "t", "e", "r", ".", "X", "H", "T", "M", "L">>,
     <<"a", "9">>, <<"a", "0", "9">>, <<"a", "2", "1", "4", "7", "4", "8", "3", "6", "4", "7">>, <<"a", "2", "1", "4", "7", "4", "8", "3", "6", "4", "8">>, <<"a", "-", "2", "1", "4", "7", "4", "8", "3", "6", "4", "8">>}

RECURSIVE Lists(_, _)
\* the lists of at most n elements of set
Lists(set, n) ==
    IF n = 0 THEN {<<>>}
    ELSE Lists(set, n - 1) \cup
         {Append(list, x) : list \in Lists(set, n - 1), x \in set}

\* a call of GetUniqueFilenameVersion(filename) on a book whose resources
\* bear the names filenames
AllocCall(filename, filenames) ==
    /\ alloc.state = "idle"
    /\ alloc' = [state |-> "called", filename |-> filename,
                 filenames |-> filenames, result |-> <<>>]
    /\ UNCHANGED <<heap, m_Resources, m_Path2Resource, m_OPF, m_NCX, m_FSWatcher,
                   m_SuspendedWatchedFiles, m_AccessMutex, disk, connections,
                   signals, pc, frame, fileChanged, changedOnDisk, called>>

\* its return
AllocReturn ==
    /\ alloc.state = "called"
    /\ \E result \in GetUniqueFilenameVersion(alloc.filename, alloc.filenames) :
          alloc' = [alloc EXCEPT !.state = "returned", !.result = result]
    /\ UNCHANGED <<heap, m_Resources, m_Path2Resource, m_OPF, m_NCX, m_FSWatcher,
                   m_SuspendedWatchedFiles, m_AccessMutex, disk, connections,
                   signals, pc, frame, fileChanged, changedOnDisk, called>>

NextAlloc ==
    \/ \E filename \in Names, filenames \in Lists(Names, MaxFilenames) :
          AllocCall(filename, filenames)
    \/ AllocReturn

SpecAlloc == Init /\ [][NextAlloc]_vars

-----------------------------------------------------------------------------
(* Statements about GetUniqueFilenameVersion, under SpecAlloc *)

\* C4: the name returned is equal, letter case aside, to none of the existing
\* names, and it is the name asked for, unchanged, exactly when that name is
\* equal, letter case aside, to none of the existing names.
C4_ReturnedNameIsUnused ==
    alloc.state = "returned" =>
        /\ ~ListContainsCI(alloc.filenames, alloc.result)
        /\ (alloc.result = alloc.filename) <=>
               ~ListContainsCI(alloc.filenames, alloc.filename)

RECURSIVE StripLeadingZeros(_)
\* a digit text without its leading zeros
StripLeadingZeros(digits) ==
    IF digits # <<>> /\ digits[1] = "0"
    THEN StripLeadingZeros(SubSeq(digits, 2, Len(digits)))
    ELSE digits

\* the number written a is less than the number written b, whatever their size
DigitsLess(a, b) ==
    LET x == StripLeadingZeros(a)
        y == StripLeadingZeros(b)
    IN  \/ Len(x) < Len(y)
        \/ /\ Len(x) = Len(y)
           /\ \E i \in DOMAIN x :
                 /\ DigitValue(x[i]) < DigitValue(y[i])
                 /\ \A j \in 1..(i - 1) : x[j] = y[j]

RECURSIVE DigitsPlusOne(_)
\* the digit text of the number written digits, plus one, at the same width
\* (one character wider when every digit is a 9)
DigitsPlusOne(digits) ==
    IF digits = <<>> THEN <<"1">>
    ELSE LET front == SubSeq(digits, 1, Len(digits) - 1)
             last  == digits[Len(digits)]
         IN  IF last = "9"
             THEN DigitsPlusOne(front) \o <<"0">>
             ELSE front \o <<Digit[DigitValue(last) + 2]>>

\* the names that are prefix + (max+1) zero-padded + extension: one for every
\* existing name that supplies the largest numeric suffix, or the default
\* 0001 when none supplies a suffix
NextNumberedNames(filename, filenames) ==
    LET prefix    == RemoveTrailingDigits(BaseName(filename))
        extension == CompleteSuffix(filename)
        tail      == IF extension # <<>> THEN <<".">> \o extension ELSE <<>>
        Capture(i) == FilenameSearchMatch(filenames[i], prefix, extension)
        suppliers == {i \in DOMAIN filenames :
                        Capture(i).hasMatch /\ Capture(i).captured # <<>>}
        largest   == {i \in suppliers :
                        \A j \in suppliers :
                           ~DigitsLess(Capture(i).captured, Capture(j).captured)}
    IN  IF suppliers = {}
        THEN {prefix \o <<"0", "0", "0", "1">> \o tail}
        ELSE {prefix \o DigitsPlusOne(Capture(i).captured) \o tail : i \in largest}

\* C5: when the name asked for collides, the name returned is prefix +
\* (max+1) zero-padded + extension, max being the largest numeric suffix among
\* the matching existing names and the width that of the digit text that
\* supplied it; value 1 at width 4 when no existing name supplies a suffix.
C5_ReturnedNameIsNextNumber ==
    (alloc.state = "returned" /\ ListContainsCI(alloc.filenames, alloc.filename)) =>
        alloc.result \in NextNumberedNames(alloc.filename, alloc.filenames)

\* the examples of C5, which the code computes as stated
C5_Examples ==
    /\ GetUniqueFilenameVersion(<<"S", "e", "c", "t", "i", "o", "n", "0", "0", "0", "1", ".", "x", "h", "t", "m", "l">>,
                                <<<<"S", "e", "c", "t", "i", "o", "n", "0", "0", "0", "1", ".", "x", "h", "t", "m", "l">>, <<"S", "e", "c", "t", "i", "o", "n", "0", "0", "9", "9", ".", "x", "h", "t", "m", "l">>>>)
          = {<<"S", "e", "c", "t", "i", "o", "n", "0", "1", "0", "0", ".", "x", "h", "t", "m", "l">>}
    /\ GetUniqueFilenameVersion(<<"c", "h", "a", "p", "t", "e", "r", ".", "x", "h", "t", "m", "l">>, <<<<"c", "h", "a", "p", "t", "e", "r", ".", "x", "h", "t", "m", "l">>>>)
          = {<<"c", "h", "a", "p", "t", "e", "r", "0", "0", "0", "1", ".", "x", "h", "t", "m", "l">>}

-----------------------------------------------------------------------------
(* The lookups.  A lookup returns a resource (NULL included) or throws.    *)

Returned(resource) == [threw |-> "", resource |-> resource]

Threw(exception) == [threw |-> exception, resource |-> NULL]

\* FolderKeeper::GetResourceByIdentifier(identifier): m_Resources[identifier]
\* of the const hash, NULL for an identifier it does not hold
GetResourceByIdentifier(identifier) ==
    Returned(IF identifier \in m_Resources THEN identifier ELSE NULL)

\* FolderKeeper::GetResourceByShortPathName(shortpathname): the first resource
\* of m_Resources.values() with that short path name, so any of those that
\* bear it; the outcomes the call can have
GetResourceByShortPathName(shortpathname) ==
    LET found == {r \in m_Resources : ShortPathName(r) = shortpathname}
    IN  IF found = {} THEN {Threw("ResourceDoesNotExist")}
        ELSE {Returned(r) : r \in found}

\* FolderKeeper::GetResourceByBookPath(bookpath)
GetResourceByBookPath(bookpath) ==
    LET resource == HashValue(m_Path2Resource, bookpath)
    IN  IF resource # NULL THEN Returned(resource)
        ELSE Threw("ResourceDoesNotExist")

-----------------------------------------------------------------------------
(* Statements about AddContentFileToFolder, under SpecAdd and SpecImport *)

\* C1: after any sequence of AddContentFileToFolder calls with distinct
\* source files, files below a META-INF folder among them, no two registered
\* resources have file names that are equal, letter case aside.
C1_FilenamesDifferCI ==
    \A r1, r2 \in m_Resources :
        r1 # r2 => ~EqualsCI(Filename(r1), Filename(r2))

\* the file name AddContentFileToFolder asks GetUniqueFilenameVersion for
\* when it adds the file that resource r was made from
DesiredFilename(r) == FileName(NormalisedFilePath(heap[r].source))

\* C3: threads that add distinct files whose desired file names collide end,
\* however their steps interleave, with one resource each, and these have
\* distinct file names, distinct identifiers in m_Resources and distinct book
\* paths in m_Path2Resource.
C3_CollidingAddsAllRegistered ==
    \A r1, r2 \in DOMAIN heap :
        (/\ r1 # r2
         /\ heap[r1].source # <<>>
         /\ heap[r2].source # <<>>
         /\ EqualsCI(DesiredFilename(r1), DesiredFilename(r2)))
        => /\ {r1, r2} \subseteq m_Resources
           /\ ~EqualsCI(Filename(r1), Filename(r2))
           /\ GetRelativePath(r1) # GetRelativePath(r2)
           /\ GetResourceByBookPath(GetRelativePath(r1)) = Returned(r1)
           /\ GetResourceByBookPath(GetRelativePath(r2)) = Returned(r2)

\* C8: a call with a path that has no file behind it throws FileDoesNotExist;
\* both hashes, the watched files and the suspended files are as before, the
\* thread does not hold the mutex, no ResourceAdded is emitted; and no call
\* goes on to the critical section with such a path.
C8_MissingSourceThrows ==
    [][\A t \in Threads :
          /\ (pc'[t] = "threw" /\ <<pc[t], frame[t]>> # <<pc'[t], frame'[t]>>)
                => /\ ~Exists(frame'[t].fullfilepath)
                   /\ pc[t] \in {"idle", "threw"}
                   /\ UNCHANGED <<heap, m_Resources, m_Path2Resource, m_FSWatcher,
                                  m_SuspendedWatchedFiles, signals>>
                   /\ m_AccessMutex' # t
          /\ (pc[t] \in {"idle", "threw"} /\ pc'[t] \notin {"idle", "threw"})
                => Exists(frame'[t].fullfilepath)]_vars

\* a call threw while files are watched and others are suspended
C8_Witness ==
    \E t \in Threads :
        /\ pc[t] = "threw"
        /\ frame[t].fullfilepath \in MissingFiles
        /\ m_FSWatcher # {}
        /\ m_SuspendedWatchedFiles # <<>>

\* neither the extension of the file nor the media type handed in is one
\* MediaTypes knows
Unclassifiable(fullfilepath, mimetype) ==
    /\ GetMediaTypeFromExtension(ToLower(Suffix(NormalisedFilePath(fullfilepath))), "") = ""
    /\ GetResourceDescFromMediaType(mimetype, "") = ""

-----------------------------------------------------------------------------
(* Statements about the two hashes, under Spec *)

\* C2: after every operation that changes them, the resources of m_Resources
\* are the resources of m_Path2Resource, and each resource is the value of
\* one key of m_Path2Resource, which is the book path it has.
C2_HashesMirrorEachOther ==
    /\ {m_Path2Resource[p] : p \in DOMAIN m_Path2Resource} = m_Resources
    /\ \A r \in m_Resources :
          \A p \in DOMAIN m_Path2Resource :
              m_Path2Resource[p] = r <=> p = GetRelativePath(r)

\* C6: after RemoveResource(r) of a registered resource r, the lookup of r by
\* its identifier returns NULL, the lookups by its book path and by its short
\* path name throw ResourceDoesNotExist, and no file name GetAllFilenames()
\* lists is r's, letter case aside.
C6_RemovedIsNotFound ==
    [][\A r \in DOMAIN heap :
          (r \in m_Resources /\ RemoveResourceCall(r)) =>
              /\ GetResourceByIdentifier(r)' = Returned(NULL)
              /\ GetResourceByBookPath(GetRelativePath(r))' = Threw("ResourceDoesNotExist")
              /\ GetResourceByShortPathName(ShortPathName(r))' = {Threw("ResourceDoesNotExist")}
              /\ \A order \in Values(m_Resources)' :
                    ~ListContainsCI(GetAllFilenames(order)', Filename(r)')]_vars

\* C7: after the rename of a registered resource r, the lookup by the old book
\* path throws ResourceDoesNotExist, the lookup by r's new book path returns
\* r, and m_Path2Resource has as many entries as before, each a resource.
C7_RenamedIsRekeyed ==
    [][\A r \in DOMAIN heap, new_filename \in NewFilenames :
          RenameTo(r, new_filename) =>
              \A old_book_path \in {GetRelativePath(r)} :
                  /\ GetResourceByBookPath(old_book_path)' = Threw("ResourceDoesNotExist")
                  /\ GetResourceByBookPath(GetRelativePath(r))' = Returned(r)
                  /\ Cardinality(DOMAIN m_Path2Resource') =
                        Cardinality(DOMAIN m_Path2Resource)
                  /\ \A p \in DOMAIN m_Path2Resource' :
                        m_Path2Resource'[p] \in m_Resources']_vars

\* C10: RemoveResource(r) of a resource that RemoveResource removed before
\* changes neither hash, neither the watched nor the suspended files, and
\* emits no further ResourceRemoved.
C10_SecondRemoveDoesNothing ==
    [][\A r \in DOMAIN heap :
          (/\ r \notin m_Resources
           /\ signals[<<"ResourceRemoved", r>>] > 0
           /\ RemoveResourceCall(r))
          => UNCHANGED <<m_Resources, m_Path2Resource, m_FSWatcher,
                         m_SuspendedWatchedFiles, signals>>]_vars

-----------------------------------------------------------------------------
(* Statements about the life of a resource in the hashes, under Spec *)

\* resource r is a value of the hash path2resource
InPath2Resource(path2resource, r) ==
    \E p \in DOMAIN path2resource : path2resource[p] = r

\* C11: a resource that RemoveResource has removed is never again in
\* m_Resources or m_Path2Resource, whatever runs later, and a resource leaves
\* the hashes through RemoveResource(resource) only.
C11_MembershipOnlyAdvances ==
    [][\A r \in DOMAIN heap :
          LET removed == signals[<<"ResourceRemoved", r>>] > 0
              removal == signals'[<<"ResourceRemoved", r>>] =
                            signals[<<"ResourceRemoved", r>>] + 1
          IN  /\ (removed /\ r \notin m_Resources) => r \notin m_Resources'
              /\ (removed /\ ~InPath2Resource(m_Path2Resource, r))
                    => ~InPath2Resource(m_Path2Resource', r)
              /\ (r \in m_Resources /\ r \notin m_Resources') => removal
              /\ (InPath2Resource(m_Path2Resource, r) /\
                  ~InPath2Resource(m_Path2Resource', r)) => removal]_vars


-----------------------------------------------------------------------------
(* Statements about the watching of the resources' files *)

\* the elements of the list
Elements(list) == {list[i] : i \in DOMAIN list}

\* C12: SuspendWatchingResources() moves all the watched paths, each once,
\* into m_SuspendedWatchedFiles and leaves none watched when
\* m_SuspendedWatchedFiles is empty; when it is not, the call changes neither.
C12_SuspendMovesWatchSet ==
    [][SuspendWatchingResources =>
          IF m_SuspendedWatchedFiles = <<>>
          THEN /\ Elements(m_SuspendedWatchedFiles') = m_FSWatcher
               /\ Len(m_SuspendedWatchedFiles') = Cardinality(m_FSWatcher)
               /\ m_FSWatcher' = {}
          ELSE UNCHANGED <<m_SuspendedWatchedFiles, m_FSWatcher>>]_vars

\* paths are suspended while a path is watched: a call of
\* SuspendWatchingResources() here is the one that changes nothing
C12_Witness ==
    /\ m_SuspendedWatchedFiles # <<>>
    /\ m_FSWatcher # {}

\* the suspended paths that have a file
SuspendedWithFile == {p \in Elements(m_SuspendedWatchedFiles) : Exists(p)}

\* ResumeWatchingResources() adds the suspended paths that have a file, and
\* no other, to the watched ones and empties m_SuspendedWatchedFiles
ResumeAddsTheSuspended ==
    ResumeWatchingResources =>
        /\ m_FSWatcher' = m_FSWatcher \cup SuspendedWithFile
        /\ m_SuspendedWatchedFiles' = <<>>

\* SuspendWatchingResources() and then ResumeWatchingResources(), run from
\* this state with nothing in between, leave the files watched that are now
RoundTripRestores ==
    \A between \in Suspended(m_FSWatcher, m_SuspendedWatchedFiles) :
        Resumed(between.files, between.suspended).files = m_FSWatcher

\* every watched or suspended path has its file
FilesPresent ==
    \A p \in m_FSWatcher \cup Elements(m_SuspendedWatchedFiles) : Exists(p)

\* C13 as stated: ResumeWatchingResources() adds exactly the suspended paths
\* whose file exists and empties the list, and SuspendWatchingResources()
\* followed at once by ResumeWatchingResources(), all files present, restores
\* the watched files.
C13_SuspendResumeRestores ==
    /\ [][ResumeAddsTheSuspended]_vars
    /\ [](FilesPresent => RoundTripRestores)

\* C13 amended: the same, the pair restoring the watched files when no path
\* is suspended at the time SuspendWatchingResources() is called.
C13_SuspendResumeRestoresFromUnsuspended ==
    /\ [][ResumeAddsTheSuspended]_vars
    /\ []((FilesPresent /\ m_SuspendedWatchedFiles = <<>>) => RoundTripRestores)

\* files are watched, none suspended, and the pair of calls takes them all
\* off the watcher and puts them back
C13_Witness ==
    /\ m_SuspendedWatchedFiles = <<>>
    /\ m_FSWatcher # {}
    /\ FilesPresent
    /\ \E between \in Suspended(m_FSWatcher, m_SuspendedWatchedFiles) :
          /\ between.files = {}
          /\ Resumed(between.files, between.suspended).files = m_FSWatcher

\* C14: while paths are suspended, between SuspendWatchingResources() and
\* ResumeWatchingResources(), no path is watched, and FileChangedOnDisk() is
\* never called for a file the book wrote itself in that time, whatever
\* signals of the watcher are pending and whatever WatchResourceFile calls run.
C14_NothingWatchedWhileSuspended ==
    /\ m_SuspendedWatchedFiles # <<>> => m_FSWatcher = {}
    /\ \A call \in changedOnDisk : ~call.own

-----------------------------------------------------------------------------
(* Statements about GetHighestReadingOrder and the NCX, under SpecRegistry *)

\* the HTML resources in m_Resources
HtmlResources == {r \in m_Resources : Type(r) = "HTMLResource"}

\* GetHighestReadingOrder() is one less than the number of HTML resources
\* in m_Resources, in whatever order values() lists them
ReadingOrderCountsHtml ==
    \A values \in Values(m_Resources) :
        GetHighestReadingOrder(values) = Cardinality(HtmlResources) - 1

\* C15: GetHighestReadingOrder() returns the number of HTML resources in
\* m_Resources less one in every state, -1 when there is none, and
\* RemoveResource of an HTML resource of m_Resources lowers it by one.
C15_ReadingOrderIsHtmlCountLessOne ==
    /\ []ReadingOrderCountsHtml
    /\ [](HtmlResources = {} =>
             \A values \in Values(m_Resources) : GetHighestReadingOrder(values) = -1)
    /\ [][\A r \in HtmlResources :
             RemoveResourceCall(r) =>
                \A before \in Values(m_Resources), after \in Values(m_Resources') :
                    GetHighestReadingOrder(after)' =
                        GetHighestReadingOrder(before) - 1]_vars

\* an HTML resource was removed and another is in m_Resources, next to
\* resources of other kinds
C15_Witness ==
    /\ \E r \in DOMAIN heap :
          /\ Type(r) = "HTMLResource"
          /\ r \notin m_Resources
          /\ signals[<<"ResourceRemoved", r>>] > 0
    /\ HtmlResources # {}
    /\ HtmlResources # m_Resources
    /\ \A values \in Values(m_Resources) : GetHighestReadingOrder(values) = 0

-----------------------------------------------------------------------------
(* Statements about the steps of AddContentFileToFolder *)

\* C16: when QFile::copy fails in AddContentFileToFolder, the call ends with
\* an exception instead of returning, ResourceAdded is not emitted for the
\* resource, and the resource stays in m_Resources and m_Path2Resource.
C16_CopyFailureAbortsAdd ==
    [][\A t \in Threads :
          /\ CopyFile(t, FALSE) =>
                /\ pc'[t] = "threw"
                /\ frame[t].resource \in m_Resources'
                /\ InPath2Resource(m_Path2Resource', frame[t].resource)
          /\ (ConnectAndEmit(t) /\ ~Exists(frame[t].new_file_path)) =>
                signals' = signals]_vars

-----------------------------------------------------------------------------
(* Statements about m_OPF and m_NCX *)

\* C17: RemoveNCXFromFolder() changes nothing when m_NCX is NULL; otherwise
\* afterwards m_NCX is NULL, the resource that was the NCX is in neither
\* m_Resources nor m_Path2Resource, its Deleted signal is disconnected, and
\* ResourceRemoved has been emitted for it exactly once.
C17_RemoveNCXRemovesOnce ==
    [][RemoveNCXFromFolder =>
          IF m_NCX = NULL
          THEN UNCHANGED vars
          ELSE /\ m_NCX' = NULL
               /\ m_NCX \notin m_Resources'
               /\ ~InPath2Resource(m_Path2Resource', m_NCX)
               /\ <<"Deleted", m_NCX>> \notin connections'
               /\ signals'[<<"ResourceRemoved", m_NCX>>] = 1]_vars

\* C18: whenever m_OPF or m_NCX points to a resource, that resource is in
\* m_Resources and in m_Path2Resource, also after the Deleted signal of the
\* resource has run RemoveResource.
C18_SlotsPointIntoHashes ==
    \A slot \in {m_OPF, m_NCX} :
        slot # NULL =>
            /\ slot \in m_Resources
            /\ InPath2Resource(m_Path2Resource, slot)

-----------------------------------------------------------------------------
(* Statements about m_AccessMutex and ResourceAdded *)

\* the threads between the locking of m_AccessMutex and the end of the
\* locker's block: GetUniqueFilenameVersion up to the insertion in the hashes
InLockedBlock == {t \in Threads : pc[t] \in {"unique", "insert"}}

\* C19: a thread holds m_AccessMutex all the way from GetUniqueFilenameVersion
\* to the insertion into m_Resources and m_Path2Resource, at most one thread
\* is in that stretch, and a thread that copies the file does not hold it.
C19_LockedFromAllocationToInsertion ==
    /\ \A t \in InLockedBlock : m_AccessMutex = t
    /\ Cardinality(InLockedBlock) <= 1
    /\ \A t \in Threads : pc[t] \in {"copy", "connect"} => m_AccessMutex # t

\* two threads are at QFile::copy at the same time
C19_Witness ==
    /\ \A t \in Threads : pc[t] = "copy"
    /\ m_AccessMutex = NoThread

\* ResourceAdded(r) is emitted in this step
AddedEmitted(r) ==
    signals'[<<"ResourceAdded", r>>] # signals[<<"ResourceAdded", r>>]

\* C20: AddContentFileToFolder emits ResourceAdded(resource) exactly when
\* update_opf is true, not more than once in a call, and only when the
\* resource is in m_Resources and m_Path2Resource, m_AccessMutex is released
\* by the caller and QFile::copy has been called.
C20_AddedIffUpdateOpf ==
    [][/\ \A r \in 1..MaxResources :
             AddedEmitted(r) =>
                /\ signals'[<<"ResourceAdded", r>>] = 1
                /\ r \in m_Resources
                /\ InPath2Resource(m_Path2Resource, r)
                /\ \E t \in Threads :
                      /\ frame[t].resource = r
                      /\ frame[t].update_opf
                      /\ pc[t] = "connect"
                      /\ m_AccessMutex # t
       /\ \A t \in Threads :
             ConnectAndEmit(t) =>
                /\ frame[t].update_opf => AddedEmitted(frame[t].resource)
                /\ ~frame[t].update_opf => signals' = signals]_vars

-----------------------------------------------------------------------------
(* Statements about ResourceFileChanged and RemoveResource, under SpecEvents *)

\* the resources of m_Resources that have the full path
ResourcesAt(path) == {r \in m_Resources : GetFullPath(r) = path}

\* C21: ResourceFileChanged(path) for a file that exists leaves the path
\* watched and calls FileChangedOnDisk() once on the resource of m_Resources
\* that has the full path, and on no other; for a file that does not exist it
\* calls nothing and changes neither the hashes nor the watched or the
\* suspended paths.
C21_FileChangedReachesItsResource ==
    [][\A event \in fileChanged :
          ResourceFileChanged(event) =>
             IF Exists(event.path)
             THEN /\ event.path \in m_FSWatcher'
                  /\ \A r \in ResourcesAt(event.path) : called' = <<r>>
                  /\ \A i \in DOMAIN called' : called'[i] \in ResourcesAt(event.path)
                  /\ UNCHANGED <<m_Resources, m_Path2Resource,
                                 m_SuspendedWatchedFiles>>
             ELSE /\ called' = <<>>
                  /\ UNCHANGED <<m_Resources, m_Path2Resource, m_FSWatcher,
                                 m_SuspendedWatchedFiles, changedOnDisk>>]_vars

\* ResourceFileChanged called FileChangedOnDisk() on a resource of m_Resources
\* whose path the watcher had lost and watches again, and a signal is pending
\* for a path that has no file any more
C21_Witness ==
    /\ Len(called) = 1
    /\ called[1] \in m_Resources
    /\ GetFullPath(called[1]) \in m_FSWatcher
    /\ \E event \in fileChanged : ~Exists(event.path)

\* the resources RemoveResource has removed
Removed ==
    {r \in DOMAIN heap : r \notin m_Resources /\ signals[<<"ResourceRemoved", r>>] > 0}

\* C22: RemoveResource(r) leaves the full path of r neither watched nor in
\* m_SuspendedWatchedFiles, and ResumeWatchingResources() does not put the
\* path of a removed resource under watch again, though its file exists,
\* unless a resource of m_Resources has that path.
C22_RemovedIsNotResumed ==
    [][/\ \A r \in DOMAIN heap :
             RemoveResourceCall(r) =>
                /\ GetFullPath(r) \notin m_FSWatcher'
                /\ GetFullPath(r) \notin Elements(m_SuspendedWatchedFiles')
       /\ ResumeWatchingResources =>
             \A r \in Removed :
                (GetFullPath(r) \notin m_FSWatcher /\ ResourcesAt(GetFullPath(r)) = {})
                   => GetFullPath(r) \notin m_FSWatcher']_vars

\* a watched resource was removed while its path was suspended, its file is
\* there still, and other paths are suspended for ResumeWatchingResources()
C22_Witness ==
    /\ m_SuspendedWatchedFiles # <<>>
    /\ \E r \in Removed :
          /\ Exists(GetFullPath(r))
          /\ ResourcesAt(GetFullPath(r)) = {}
          /\ GetFullPath(r) \notin m_FSWatcher
=============================================================================
